---- MODULE Spec2Model ----
(***************************************************************************)
(* setup-minikube: the setup invocation (main, README.md:160-499), the     *)
(* teardown invocation (cleanup, src/cleanup.ts) and the job that runs     *)
(* one after the other, sharing only the state saved with core.saveState,  *)
(* the filesystem and the exported environment.                            *)
(*                                                                         *)
(* Every awaited call is one action.  An exec call has three outcomes:     *)
(* "ok" (exit 0), "fail" (non-zero exit) and "throw" (the tool cannot be   *)
(* launched); exec rejects on "throw", and on "fail" unless the call       *)
(* passes ignoreReturnCode.                                                *)
(***************************************************************************)
EXTENDS Integers, Sequences, FiniteSets, TLC

VARIABLES
  pc,        \* position of the running invocation
  inv,       \* 1: the job-start invocation, 2: the job-end (post) invocation
  state,     \* core.saveState / core.getState: key -> string, "" when unset
  platform,  \* os.platform()
  inputs,    \* the inputs main() resolved
  calls,     \* argv of every command the running main() has launched, in order
  ccalls,    \* argv of every command cleanup() has launched, in order
  warnings,  \* core.warning calls so far (which catch or check emitted them)
  result,    \* how main() and cleanup() ended
  fs,        \* the files and packages the action touches
  env,       \* PATH / KUBECONFIG / outputs exported to the job
  hist,      \* what this job's setup did and saw (history, read by no action)
  url,       \* downloadUrl of installMinikube
  wait       \* locals of waitForClusterReady

vars == <<pc, inv, state, platform, inputs, calls, ccalls, warnings, result,
          fs, env, hist, url, wait>>

------------------------------------------------------------------------------
(* Bounds *)

\* the clock of the readiness loop stops advancing past this many milliseconds
MaxClockMs == 12000
\* a sleep overruns its 5000 ms by 0..MaxJitterSteps steps of JitterStepMs
MaxJitterSteps == 1
JitterStepMs == 1000

(* Program constants *)
SleepMs == 5000

\* a parsed number: NaN, or the integer val
NaN == [nan |-> TRUE, val |-> 0]
Num(n) == [nan |-> FALSE, val |-> n]

\* nodes and kube-system pods a query reports, at most
MaxNodes == 1
MaxPods == 2

------------------------------------------------------------------------------
(* Values *)

Keys == {"isPost", "minikubePath", "customBinDir", "dockerInstalled"}
NoState == [k \in Keys |-> ""]

CustomBinDir == "~/.local/bin"
MinikubePath == "~/.local/bin/minikube"
SystemMinikube == "/usr/local/bin/minikube"
KubeconfigPath == "~/.kube/config"
TmpBinary == "/tmp/minikube"

Platforms == {"linux", "darwin", "win32"}
Archs == {"x86_64", "aarch64", "arm64", "armv7l", "riscv64", "i686"}
Versions == {"", "stable", "v1.30.0"}
KubernetesVersions == {"", "stable", "v1.28.0"}
Drivers == {"", "none"}
WaitInputs == {"true", "false"}
\* the timeout input, as its characters
TimeoutInputs == { <<>>, <<"a", "b", "c">>, <<"-", "1">>, <<"0">>, <<"5">> }

Outcomes == {"ok", "fail", "throw"}

\* exec.exec rejects when the tool cannot be launched, or exits non-zero
\* without ignoreReturnCode
Rejects(o, ignoreReturnCode) == o = "throw" \/ (o = "fail" /\ ~ignoreReturnCode)

------------------------------------------------------------------------------
(* parseInt(s, 10) on a sequence of characters *)

DigitChars == <<"0", "1", "2", "3", "4", "5", "6", "7", "8", "9">>
IsDigit(c) == \E i \in 1..10 : DigitChars[i] = c
DigitVal(c) == (CHOOSE i \in 1..10 : DigitChars[i] = c) - 1

RECURSIVE DigitPrefix(_, _)
\* value of the longest prefix of digits of s, starting from acc
DigitPrefix(s, acc) ==
  IF s = <<>> \/ ~IsDigit(Head(s)) THEN acc
  ELSE DigitPrefix(Tail(s), acc * 10 + DigitVal(Head(s)))

parseInt(s) ==
  LET neg  == s # <<>> /\ Head(s) = "-"
      body == IF s # <<>> /\ Head(s) \in {"-", "+"} THEN Tail(s) ELSE s
  IN IF body = <<>> \/ ~IsDigit(Head(body)) THEN NaN
     ELSE IF neg THEN Num(0 - DigitPrefix(body, 0))
     ELSE Num(DigitPrefix(body, 0))

\* core.getInput(name) || fallback
OrDefault(v, d) == IF v = "" THEN d ELSE v

\* main(): lines 174-178
ResolveInputs(version, k8s, driver, waitIn, timeoutIn) ==
  [version           |-> OrDefault(version, "latest"),
   kubernetesVersion |-> OrDefault(k8s, "stable"),
   driver            |-> OrDefault(driver, "docker"),
   waitForReady      |-> (waitIn = "true"),
   timeout           |-> parseInt(IF timeoutIn = <<>> THEN <<"3", "0", "0">>
                                  ELSE timeoutIn)]

NoInputs == [version |-> "", kubernetesVersion |-> "", driver |-> "",
             waitForReady |-> FALSE, timeout |-> Num(0)]

------------------------------------------------------------------------------
(* Initial state of a job *)

NoWait == [elapsedMs |-> 0, ticks |-> 0, sleeps |-> 0, tick |-> <<>>,
           outcome |-> "none", diag |-> <<>>]
NoResult == [main |-> "none", error |-> "", cleanup |-> "none"]
NoEnv == [path |-> FALSE, kubeconfig |-> "", output |-> ""]
NoHist == [dirCreated |-> FALSE, prereqInstalled |-> FALSE,
           prereqPreexisting |-> FALSE, started |-> FALSE, saved |-> <<>>,
           arch |-> ""]

\* the install directory may pre-exist, with or without files of other tools
Init ==
  /\ pc = "router"
  /\ inv = 1
  /\ state = NoState
  /\ platform \in Platforms
  /\ inputs = NoInputs
  /\ calls = <<>>
  /\ ccalls = <<>>
  /\ warnings = {}
  /\ result = NoResult
  /\ \E d \in BOOLEAN, o \in BOOLEAN, c \in BOOLEAN :
       /\ o => d
       /\ fs = [dir |-> d, bin |-> FALSE, other |-> o, tmp |-> FALSE,
                conntrack |-> c, cluster |-> FALSE]
  /\ env = NoEnv
  /\ hist = NoHist
  /\ url = <<>>
  /\ wait = NoWait

------------------------------------------------------------------------------
(* The persisted state record *)

RECURSIVE saveState(_, _)
\* core.saveState for each <<key, value>> of w, in order
saveState(st, w) ==
  IF w = <<>> THEN st
  ELSE saveState([st EXCEPT ![Head(w)[1]] = Head(w)[2]], Tail(w))

\* the keys w saves, in order
SavedKeys(w) == [i \in 1..Len(w) |-> w[i][1]]

\* a main() that never saves the phase marker
main_state_unsaved == <<>>

\* main(): the phase marker, saved before anything else
main_state == << <<"isPost", "true">> >>

\* an installMinikube() that saves the binary's path and not its directory
installMinikube_state_pathOnly == << <<"minikubePath", MinikubePath>> >>

\* an installMinikube() that saves the binary's path a second time
installMinikube_state_twice ==
  << <<"minikubePath", TmpBinary>>, <<"customBinDir", CustomBinDir>>,
     <<"minikubePath", MinikubePath>> >>

\* installMinikube(): the binary's path and its directory, saved together
installMinikube_state ==
  << <<"minikubePath", MinikubePath>>, <<"customBinDir", CustomBinDir>> >>

\* The entry point: setup when the phase marker is unset, teardown otherwise
IsPost(st) == st["isPost"] # ""

------------------------------------------------------------------------------
(* How an invocation ends *)

\* where the job goes when an invocation has ended
AfterInvocation == IF inv = 1 THEN "job" ELSE "done"

\* a main() that logs what a step threw and goes on with the next step
MainThrows_swallowed(step) ==
  /\ result' = [result EXCEPT !.main = "threw", !.error = step]
  /\ pc' = CASE step = "prerequisites" -> "install"
            [] step = "install" -> "start"
            [] step = "start" -> "wait"
            [] OTHER -> "main_end"

\* main() rethrows what a step threw: the invocation fails
MainThrows(step) ==
  /\ result' = [result EXCEPT !.main = "threw", !.error = step]
  /\ pc' = "main_end"

\* main() returns: the invocation succeeds
MainReturns ==
  /\ result' = [result EXCEPT !.main = "ok"]
  /\ pc' = "main_end"

\* the setup process exits, and what it held in memory is gone
main_exit ==
  /\ pc = "main_end"
  /\ pc' = AfterInvocation
  /\ inputs' = NoInputs
  /\ calls' = <<>>
  /\ url' = <<>>
  /\ UNCHANGED <<inv, state, platform, ccalls, warnings, result, fs, env, hist,
                 wait>>

Router ==
  /\ pc = "router"
  /\ pc' = IF IsPost(state) THEN "cleanup" ELSE "main"
  /\ UNCHANGED <<inv, state, platform, inputs, calls, ccalls, warnings, result,
                 fs, env, hist, url, wait>>

\* The job's own steps, between the two invocations: they may leave files of
\* their own in the install directory
JobSteps ==
  /\ pc = "job"
  /\ inv = 1
  /\ \E add \in BOOLEAN :
       fs' = [fs EXCEPT !.other = @ \/ (add /\ fs.dir)]
  /\ inv' = 2
  /\ pc' = "router"
  /\ UNCHANGED <<state, platform, inputs, calls, ccalls, warnings, result,
                 env, hist, url, wait>>

------------------------------------------------------------------------------
(* main() *)

main ==
  /\ pc = "main"
  /\ state' = saveState(state, main_state)
  /\ hist' = [hist EXCEPT !.saved = @ \o SavedKeys(main_state)]
  /\ \E v \in Versions, k \in KubernetesVersions, d \in Drivers,
        w \in WaitInputs, t \in TimeoutInputs :
       inputs' = ResolveInputs(v, k, d, w, t)
  /\ pc' = "prereq"
  /\ UNCHANGED <<inv, platform, calls, ccalls, warnings, result, fs, env, url,
                 wait>>

(* installPrerequisites() *)

\* `which conntrack` exits 0 exactly when conntrack is on the search path
WhichOutcomes(present) == {IF present THEN "ok" ELSE "fail", "throw"}

installPrerequisites ==
  /\ pc = "prereq"
  /\ IF platform # "linux"
     THEN /\ pc' = "install"
          /\ UNCHANGED <<calls, hist, result>>
     ELSE \E o \in WhichOutcomes(fs.conntrack) :
            /\ calls' = Append(calls, <<"which", "conntrack">>)
            /\ IF Rejects(o, TRUE)
               THEN MainThrows("prerequisites") /\ UNCHANGED hist
               ELSE /\ pc' = IF o = "ok" THEN "install" ELSE "prereq_update"
                    /\ hist' = [hist EXCEPT !.prereqPreexisting = (o = "ok")]
                    /\ UNCHANGED result
  /\ UNCHANGED <<inv, state, platform, inputs, ccalls, warnings, fs, env, url,
                 wait>>

installPrerequisites_update ==
  /\ pc = "prereq_update"
  /\ calls' = Append(calls, <<"sudo", "apt-get", "update", "-qq">>)
  /\ \E o \in Outcomes :
       IF Rejects(o, FALSE)
       THEN MainThrows("prerequisites")
       ELSE pc' = "prereq_install" /\ UNCHANGED result
  /\ UNCHANGED <<inv, state, platform, inputs, ccalls, warnings, fs, env,
                 hist, url, wait>>

\* a successful install puts conntrack on the machine; nothing is saved
installPrerequisites_install ==
  /\ pc = "prereq_install"
  /\ calls' = Append(calls,
                <<"sudo", "apt-get", "install", "-y", "-qq", "conntrack">>)
  /\ \E o \in Outcomes :
       IF Rejects(o, FALSE)
       THEN MainThrows("prerequisites") /\ UNCHANGED <<fs, hist>>
       ELSE /\ pc' = "install"
            /\ fs' = [fs EXCEPT !.conntrack = TRUE]
            /\ hist' = [hist EXCEPT !.prereqInstalled = TRUE]
            /\ UNCHANGED result
  /\ UNCHANGED <<inv, state, platform, inputs, ccalls, warnings, env, url,
                 wait>>

------------------------------------------------------------------------------
(* installMinikube() *)

\* a switch whose default branch falls back to amd64
BinaryArch_fallback(arch) ==
  CASE arch \in {"aarch64", "arm64"} -> "arm64"
    [] arch = "armv7l" -> "arm"
    [] OTHER -> "amd64"

\* the architecture switch; "" is the default branch, which throws
BinaryArch(arch) ==
  CASE arch = "x86_64" -> "amd64"
    [] arch \in {"aarch64", "arm64"} -> "arm64"
    [] arch = "armv7l" -> "arm"
    [] OTHER -> ""

\* the platform switch; "" is the default branch, which throws
OsPlatform(p) ==
  CASE p = "linux" -> "linux"
    [] p = "darwin" -> "darwin"
    [] OTHER -> ""

\* the download URL, as the parts the code assembles it from
DownloadUrl(version, osPlatform, binaryArch) ==
  IF version = "latest" \/ version = "stable"
  THEN <<"storage.googleapis.com/minikube/releases", "latest", osPlatform,
         binaryArch>>
  ELSE <<"github.com/kubernetes/minikube/releases/download", version,
         osPlatform, binaryArch>>

\* `uname -m`, then both switches and the URL
installMinikube_uname ==
  /\ pc = "install"
  /\ calls' = Append(calls, <<"uname", "-m">>)
  /\ \E o \in Outcomes, arch \in Archs :
       /\ hist' = IF Rejects(o, FALSE) THEN hist
                  ELSE [hist EXCEPT !.arch = arch]
       /\ IF Rejects(o, FALSE) \/ BinaryArch(arch) = ""
             \/ OsPlatform(platform) = ""
          THEN MainThrows("install") /\ UNCHANGED url
          ELSE /\ url' = DownloadUrl(inputs.version, OsPlatform(platform),
                                     BinaryArch(arch))
               /\ pc' = "install_curl"
               /\ UNCHANGED result
  /\ UNCHANGED <<inv, state, platform, inputs, ccalls, warnings, fs, env,
                 wait>>

installMinikube_curl ==
  /\ pc = "install_curl"
  /\ calls' = Append(calls, <<"curl", "-sfL">> \o url \o <<"-o", TmpBinary>>)
  /\ \E o \in Outcomes :
       IF Rejects(o, FALSE)
       THEN MainThrows("install") /\ UNCHANGED fs
       ELSE /\ fs' = [fs EXCEPT !.tmp = TRUE]
            /\ pc' = "install_mkdir"
            /\ UNCHANGED result
  /\ UNCHANGED <<inv, state, platform, inputs, ccalls, warnings, env, hist,
                 url, wait>>

\* fs.mkdir(customBinDir, {recursive: true})
installMinikube_mkdir ==
  /\ pc = "install_mkdir"
  /\ calls' = Append(calls, <<"mkdir", CustomBinDir>>)
  /\ \E o \in {"ok", "throw"} :
       IF o = "throw"
       THEN MainThrows("install") /\ UNCHANGED <<fs, hist>>
       ELSE /\ fs' = [fs EXCEPT !.dir = TRUE]
            /\ hist' = [hist EXCEPT !.dirCreated = ~fs.dir]
            /\ pc' = "install_install"
            /\ UNCHANGED result
  /\ UNCHANGED <<inv, state, platform, inputs, ccalls, warnings, env, url,
                 wait>>

\* `install -m 755`, then PATH and the two saved paths
installMinikube_install ==
  /\ pc = "install_install"
  /\ calls' = Append(calls, <<"install", "-m", "755", TmpBinary, MinikubePath>>)
  /\ \E o \in Outcomes :
       IF Rejects(o, FALSE)
       THEN MainThrows("install") /\ UNCHANGED <<fs, env, state, hist>>
       ELSE /\ fs' = [fs EXCEPT !.bin = TRUE]
            /\ env' = [env EXCEPT !.path = TRUE]
            /\ state' = saveState(state, installMinikube_state)
            /\ hist' = [hist EXCEPT
                          !.saved = @ \o SavedKeys(installMinikube_state)]
            /\ pc' = "install_rmtmp"
            /\ UNCHANGED result
  /\ UNCHANGED <<inv, platform, inputs, ccalls, warnings, url, wait>>

installMinikube_rmtmp ==
  /\ pc = "install_rmtmp"
  /\ calls' = Append(calls, <<"rm", "-f", TmpBinary>>)
  /\ \E o \in Outcomes :
       IF Rejects(o, FALSE)
       THEN MainThrows("install") /\ UNCHANGED fs
       ELSE /\ fs' = [fs EXCEPT !.tmp = FALSE]
            /\ pc' = "install_version"
            /\ UNCHANGED result
  /\ UNCHANGED <<inv, state, platform, inputs, ccalls, warnings, env, hist,
                 url, wait>>

installMinikube_version ==
  /\ pc = "install_version"
  /\ calls' = Append(calls, <<"minikube", "version">>)
  /\ \E o \in Outcomes :
       IF Rejects(o, FALSE)
       THEN MainThrows("install")
       ELSE pc' = "install_which" /\ UNCHANGED result
  /\ UNCHANGED <<inv, state, platform, inputs, ccalls, warnings, fs, env,
                 hist, url, wait>>

\* `which minikube`: a path other than the installed one is only a warning
installMinikube_which ==
  /\ pc = "install_which"
  /\ calls' = Append(calls, <<"which", "minikube">>)
  /\ \E o \in Outcomes, actualPath \in {MinikubePath, SystemMinikube} :
       IF Rejects(o, FALSE)
       THEN MainThrows("install") /\ UNCHANGED warnings
       ELSE /\ warnings' = IF actualPath # MinikubePath
                           THEN warnings \cup {"shadowed"} ELSE warnings
            /\ pc' = "start"
            /\ UNCHANGED result
  /\ UNCHANGED <<inv, state, platform, inputs, ccalls, fs, env, hist, url,
                 wait>>

------------------------------------------------------------------------------
(* startMinikube() *)

\* a start that always names the version
StartArgs_versioned(kubernetesVersion, driver) ==
  <<"minikube", "start", "--driver", driver,
    "--kubernetes-version", kubernetesVersion>>

StartArgs(kubernetesVersion, driver) ==
  <<"minikube", "start", "--driver", driver>>
    \o (IF kubernetesVersion # "stable"
        THEN <<"--kubernetes-version", kubernetesVersion>> ELSE <<>>)

startMinikube_start ==
  /\ pc = "start"
  /\ calls' = Append(calls, StartArgs(inputs.kubernetesVersion, inputs.driver))
  /\ \E o \in Outcomes :
       IF Rejects(o, FALSE)
       THEN MainThrows("start") /\ UNCHANGED <<fs, hist>>
       ELSE /\ fs' = [fs EXCEPT !.cluster = TRUE]
            /\ hist' = [hist EXCEPT !.started = TRUE]
            /\ pc' = "start_config"
            /\ UNCHANGED result
  /\ UNCHANGED <<inv, state, platform, inputs, ccalls, warnings, env, url,
                 wait>>

\* a publication that sets the output and leaves the environment alone
Published_outputOnly(e) == [e EXCEPT !.output = KubeconfigPath]

\* core.setOutput('kubeconfig', p) and core.exportVariable('KUBECONFIG', p),
\* p being path.join(os.homedir(), '.kube', 'config')
Published(e) ==
  [e EXCEPT !.output = KubeconfigPath, !.kubeconfig = KubeconfigPath]

\* `minikube kubectl -- config view`, then the output and KUBECONFIG; main()
\* goes on to the readiness wait, or ends
startMinikube_config ==
  /\ pc = "start_config"
  /\ calls' = Append(calls, <<"minikube", "kubectl", "--", "config", "view">>)
  /\ \E o \in Outcomes :
       IF Rejects(o, FALSE)
       THEN MainThrows("start") /\ UNCHANGED env
       ELSE /\ env' = Published(env)
            /\ IF inputs.waitForReady
               THEN pc' = "wait" /\ UNCHANGED result
               ELSE MainReturns
  /\ UNCHANGED <<inv, state, platform, inputs, ccalls, warnings, fs, hist,
                 url, wait>>

------------------------------------------------------------------------------
(* waitForClusterReady() *)

\* the elapsed time left in milliseconds
Elapsed_ms(ms) == ms

\* Math.floor(ms / 1000)
Elapsed(ms) == ms \div 1000

\* elapsed > timeoutSeconds; every comparison with NaN is false
TimedOut(elapsed, timeoutSeconds) ==
  ~timeoutSeconds.nan /\ elapsed > timeoutSeconds.val

\* exit status of `grep -v <pattern>` on lines, matching being the lines the
\* pattern matches: 0 when some line does not match, 1 when none (also on no
\* input at all)
GrepV(lines, matching) ==
  IF \E i \in 1..Len(lines) : lines[i] \notin matching THEN 0 ELSE 1

\* the STATUS column values that " Ready " and "Running\|Completed" match
NodeReady == {"Ready"}
PodSettled == {"Running", "Completed"}

Lists(S, n) == UNION {[1..k -> S] : k \in 0..n}
NodeLists == Lists({"Ready", "NotReady"}, MaxNodes)
PodLists == Lists({"Running", "Completed", "Pending"}, MaxPods)

\* checks in sequence instead of nested: the next one runs either way
AfterCheck_ungated(passed, next) == next

\* the nested ifs: a check that passed leads to the next one, a check that
\* failed to the sleep
AfterCheck(passed, next) == IF passed THEN next ELSE "wait_sleep"

Checked(name, passed, seen) == [check |-> name, pass |-> passed, seen |-> seen]

\* an exec of the loop that cannot be launched: the catch wraps and rethrows
WaitThrows ==
  /\ wait' = [wait EXCEPT !.outcome = "threw"]
  /\ pc' = "wait_throw"

\* top of the loop: the timeout test, then `minikube status`
waitForClusterReady_tick ==
  /\ pc = "wait"
  /\ IF TimedOut(Elapsed(wait.elapsedMs), inputs.timeout)
     THEN /\ wait' = [wait EXCEPT !.outcome = "timeout"]
          /\ pc' = "diag"
     ELSE \E o \in Outcomes :
            IF Rejects(o, TRUE)
            THEN WaitThrows
            ELSE /\ wait' = [wait EXCEPT
                               !.ticks = @ + 1,
                               !.tick = <<Checked("DriverRunning", o = "ok", 0)>>]
                 /\ pc' = AfterCheck(o = "ok", "wait_api")
  /\ UNCHANGED <<inv, state, platform, inputs, calls, ccalls, warnings, result,
                 fs, env, hist, url>>

\* `kubectl cluster-info`
waitForClusterReady_api ==
  /\ pc = "wait_api"
  /\ \E o \in Outcomes :
       IF Rejects(o, TRUE)
       THEN WaitThrows
       ELSE /\ wait' = [wait EXCEPT
                          !.tick = Append(@, Checked("APIReachable", o = "ok", 0))]
            /\ pc' = AfterCheck(o = "ok", "wait_nodes")
  /\ UNCHANGED <<inv, state, platform, inputs, calls, ccalls, warnings, result,
                 fs, env, hist, url>>

\* `kubectl get nodes --no-headers | grep -v " Ready "`: a failed kubectl
\* prints nothing, and the status is grep's
waitForClusterReady_nodes ==
  /\ pc = "wait_nodes"
  /\ \E o \in {"ran", "throw"}, kubectlOk \in BOOLEAN, nodes \in NodeLists :
       IF o = "throw"
       THEN WaitThrows
       ELSE LET lines == IF kubectlOk THEN nodes ELSE <<>>
                passed == GrepV(lines, NodeReady) # 0
            IN /\ wait' = [wait EXCEPT
                             !.tick = Append(@, Checked("NodesReady", passed,
                                                        Len(lines)))]
               /\ pc' = AfterCheck(passed, "wait_pods")
  /\ UNCHANGED <<inv, state, platform, inputs, calls, ccalls, warnings, result,
                 fs, env, hist, url>>

\* `kubectl get pods -n kube-system --no-headers | grep -v "Running\|Completed"`
waitForClusterReady_pods ==
  /\ pc = "wait_pods"
  /\ \E o \in {"ran", "throw"}, kubectlOk \in BOOLEAN, pods \in PodLists :
       IF o = "throw"
       THEN WaitThrows
       ELSE LET lines == IF kubectlOk THEN pods ELSE <<>>
                passed == GrepV(lines, PodSettled) # 0
            IN /\ wait' = [wait EXCEPT
                             !.tick = Append(@, Checked("SystemPodsSettled",
                                                        passed, Len(lines))),
                             !.outcome = IF passed THEN "success" ELSE @]
               /\ pc' = AfterCheck(passed, "wait_done")
  /\ UNCHANGED <<inv, state, platform, inputs, calls, ccalls, warnings, result,
                 fs, env, hist, url>>

\* a loop that polls again at once: no sleep between two ticks
waitForClusterReady_nosleep ==
  /\ pc = "wait_sleep"
  /\ wait' = [wait EXCEPT !.tick = <<>>]
  /\ pc' = "wait"
  /\ UNCHANGED <<inv, state, platform, inputs, calls, ccalls, warnings, result,
                 fs, env, hist, url>>

\* setTimeout(resolve, 5000): at least 5000 ms pass before the next tick,
\* which evaluates every check afresh
waitForClusterReady_sleep ==
  /\ pc = "wait_sleep"
  /\ \E j \in 0..MaxJitterSteps :
       LET now == wait.elapsedMs + SleepMs + j * JitterStepMs
       IN /\ now <= MaxClockMs
          /\ wait' = [wait EXCEPT !.elapsedMs = now, !.sleeps = @ + 1,
                                   !.tick = <<>>]
  /\ pc' = "wait"
  /\ UNCHANGED <<inv, state, platform, inputs, calls, ccalls, warnings, result,
                 fs, env, hist, url>>

DiagCommands ==
  << <<"minikube", "status">>, <<"minikube", "logs", "--length=100">>,
     <<"kubectl", "cluster-info">>, <<"kubectl", "get", "nodes", "-o", "wide">>,
     <<"kubectl", "get", "pods", "-n", "kube-system">> >>

\* commands of cmds launched when the one at position thrown (if any) cannot
\* be launched: one try block around all of them
Launched(cmds, thrown) ==
  SubSeq(cmds, 1, IF thrown <= Len(cmds) THEN thrown ELSE Len(cmds))

\* showDiagnostics(): exit statuses are ignored; thrown = Len + 1 is no throw
showDiagnostics ==
  /\ pc = "diag"
  /\ \E thrown \in 1..(Len(DiagCommands) + 1) :
       /\ wait' = [wait EXCEPT !.diag = Launched(DiagCommands, thrown)]
       /\ warnings' = IF thrown <= Len(DiagCommands)
                      THEN warnings \cup {"diagnostics"} ELSE warnings
  /\ pc' = "wait_throw"
  /\ UNCHANGED <<inv, state, platform, inputs, calls, ccalls, result, fs, env,
                 hist, url>>

\* the timeout error, or what an exec threw, leaves the function wrapped
waitForClusterReady_throw ==
  /\ pc = "wait_throw"
  /\ MainThrows("wait")
  /\ wait' = NoWait
  /\ UNCHANGED <<inv, state, platform, inputs, calls, ccalls, warnings, fs,
                 env, hist, url>>

\* the break: the function returns and main() ends
waitForClusterReady_return ==
  /\ pc = "wait_done"
  /\ MainReturns
  /\ wait' = NoWait
  /\ UNCHANGED <<inv, state, platform, inputs, calls, ccalls, warnings, fs,
                 env, hist, url>>

------------------------------------------------------------------------------
(* cleanup() *)

\* a catch that logs and rethrows
Caught_rethrown == "threw"

\* what cleanup()'s caller sees when a step throws: the catch swallows it
Caught == "returned"

\* the catch of cleanup(): a warning, and cleanup() ends
CleanupCatches ==
  /\ warnings' = warnings \cup {"cleanup"}
  /\ result' = [result EXCEPT !.cleanup = Caught]
  /\ pc' = "done"

\* an exec of deleteMinikube(): its exit status is ignored; when it cannot be
\* launched the error leaves deleteMinikube() for cleanup()'s catch
DeleteExec(argv, o, next) ==
  /\ ccalls' = Append(ccalls, argv)
  /\ IF Rejects(o, TRUE)
     THEN CleanupCatches
     ELSE pc' = next /\ UNCHANGED <<warnings, result>>

\* a deleteMinikube() without the early return
NothingInstalled_unchecked(st) == FALSE

\* deleteMinikube() returns at once when no binary path was saved
NothingInstalled(st) == st["minikubePath"] = ""

\* `minikube status`: delete only when it exits 0
deleteMinikube_status ==
  /\ pc = "cleanup"
  /\ IF NothingInstalled(state)
     THEN pc' = "docker" /\ UNCHANGED <<ccalls, warnings, result>>
     ELSE \E o \in Outcomes :
            DeleteExec(<<"minikube", "status">>, o,
                       IF o = "ok" THEN "dm_delete" ELSE "dm_home")
  /\ UNCHANGED <<inv, state, platform, inputs, calls, fs, env, hist, url, wait>>

deleteMinikube_delete ==
  /\ pc = "dm_delete"
  /\ \E o \in Outcomes :
       /\ DeleteExec(<<"minikube", "delete">>, o, "dm_home")
       /\ fs' = IF o = "ok" THEN [fs EXCEPT !.cluster = FALSE] ELSE fs
  /\ UNCHANGED <<inv, state, platform, inputs, calls, env, hist, url, wait>>

deleteMinikube_home ==
  /\ pc = "dm_home"
  /\ \E o \in Outcomes :
       DeleteExec(<<"rm", "-rf", "~/.minikube">>, o, "dm_etc_cni")
  /\ UNCHANGED <<inv, state, platform, inputs, calls, fs, env, hist, url, wait>>

deleteMinikube_etc_cni ==
  /\ pc = "dm_etc_cni"
  /\ \E o \in Outcomes :
       DeleteExec(<<"sudo", "rm", "-rf", "/etc/cni">>, o, "dm_opt_cni")
  /\ UNCHANGED <<inv, state, platform, inputs, calls, fs, env, hist, url, wait>>

deleteMinikube_opt_cni ==
  /\ pc = "dm_opt_cni"
  /\ \E o \in Outcomes :
       DeleteExec(<<"sudo", "rm", "-rf", "/opt/cni">>, o, "dm_binary")
  /\ UNCHANGED <<inv, state, platform, inputs, calls, fs, env, hist, url, wait>>

\* the file rm -f is given: the saved path
RemovedPath(st) == st["minikubePath"]

\* `rm -f <minikubePath>`: the binary is gone when rm exits 0
deleteMinikube_binary ==
  /\ pc = "dm_binary"
  /\ \E o \in Outcomes :
       /\ DeleteExec(<<"rm", "-f", RemovedPath(state)>>, o,
                     IF state["customBinDir"] # "" THEN "dm_empty" ELSE "docker")
       /\ fs' = IF o = "ok" /\ RemovedPath(state) = MinikubePath
                THEN [fs EXCEPT !.bin = FALSE] ELSE fs
  /\ UNCHANGED <<inv, state, platform, inputs, calls, env, hist, url, wait>>

\* exit status of `[ -d dir ] && [ -z "$(ls -A dir)" ]`
DirEmptyExit(f) == IF f.dir /\ ~f.bin /\ ~f.other THEN "ok" ELSE "fail"

deleteMinikube_empty ==
  /\ pc = "dm_empty"
  /\ \E o \in {DirEmptyExit(fs), "throw"} :
       DeleteExec(<<"bash", "-c", "[ -d ] && [ -z ls -A ]", state["customBinDir"]>>,
                  o, IF o = "ok" THEN "dm_rmdir" ELSE "docker")
  /\ UNCHANGED <<inv, state, platform, inputs, calls, fs, env, hist, url, wait>>

deleteMinikube_rmdir ==
  /\ pc = "dm_rmdir"
  /\ \E o \in Outcomes :
       /\ DeleteExec(<<"rmdir", state["customBinDir"]>>, o, "docker")
       /\ fs' = IF o = "ok" THEN [fs EXCEPT !.dir = FALSE] ELSE fs
  /\ UNCHANGED <<inv, state, platform, inputs, calls, env, hist, url, wait>>

DockerCommands ==
  << <<"sudo", "systemctl", "stop", "docker">>,
     <<"sudo", "systemctl", "stop", "docker.socket">>,
     <<"sudo", "apt-get", "purge", "docker-ce", "docker-ce-cli", "containerd.io">>,
     <<"sudo", "rm", "-f", "/etc/apt/sources.list.d/docker.list">>,
     <<"sudo", "rm", "-f", "/etc/apt/keyrings/docker.gpg">>,
     <<"sudo", "rm", "-rf", "/var/lib/docker">>,
     <<"sudo", "rm", "-rf", "/var/lib/containerd">>,
     <<"sudo", "apt-get", "autoremove", "-y", "-qq">>,
     <<"sudo", "apt-get", "autoclean", "-qq">> >>

\* removeDockerIfInstalled() reverses only what the saved flag says was added
DockerWasInstalled(st) == st["dockerInstalled"] = "true"

\* removeDockerIfInstalled(), then the end of cleanup(): exit statuses are
\* ignored, a command that cannot be launched ends the function with a warning
removeDockerIfInstalled ==
  /\ pc = "docker"
  /\ IF ~DockerWasInstalled(state)
     THEN UNCHANGED <<ccalls, warnings>>
     ELSE \E thrown \in 1..(Len(DockerCommands) + 1) :
            /\ ccalls' = ccalls \o Launched(DockerCommands, thrown)
            /\ warnings' = IF thrown <= Len(DockerCommands)
                           THEN warnings \cup {"docker"} ELSE warnings
  /\ result' = [result EXCEPT !.cleanup = "returned"]
  /\ pc' = "done"
  /\ UNCHANGED <<inv, state, platform, inputs, calls, fs, env, hist, url, wait>>

------------------------------------------------------------------------------
(* Specifications *)

MainNext ==
  \/ main
  \/ installPrerequisites
  \/ installPrerequisites_update
  \/ installPrerequisites_install
  \/ installMinikube_uname
  \/ installMinikube_curl
  \/ installMinikube_mkdir
  \/ installMinikube_install
  \/ installMinikube_rmtmp
  \/ installMinikube_version
  \/ installMinikube_which
  \/ startMinikube_start
  \/ startMinikube_config
  \/ waitForClusterReady_tick
  \/ waitForClusterReady_api
  \/ waitForClusterReady_nodes
  \/ waitForClusterReady_pods
  \/ waitForClusterReady_sleep
  \/ showDiagnostics
  \/ waitForClusterReady_throw
  \/ waitForClusterReady_return
  \/ main_exit

CleanupNext ==
  \/ deleteMinikube_status
  \/ deleteMinikube_delete
  \/ deleteMinikube_home
  \/ deleteMinikube_etc_cni
  \/ deleteMinikube_opt_cni
  \/ deleteMinikube_binary
  \/ deleteMinikube_empty
  \/ deleteMinikube_rmdir
  \/ removeDockerIfInstalled

Next == Router \/ JobSteps \/ MainNext \/ CleanupNext

\* a job: the setup invocation, the job's steps, the post invocation
Spec == Init /\ [][Next]_vars

\* cleanup() alone, on every content of the saved state and of the filesystem
CleanupInit ==
  /\ pc = "cleanup"
  /\ inv = 2
  /\ state \in {st \in [Keys -> {"", "true", "false", MinikubePath, CustomBinDir}] :
                  /\ st["isPost"] = "true"
                  /\ st["minikubePath"] \in {"", MinikubePath}
                  /\ st["customBinDir"] \in {"", CustomBinDir}
                  /\ st["dockerInstalled"] \in {"", "true", "false"}}
  /\ platform \in {"linux"}
  /\ inputs = NoInputs
  /\ calls = <<>>
  /\ ccalls = <<>>
  /\ warnings = {}
  /\ result = NoResult
  /\ \E d \in BOOLEAN, b \in BOOLEAN, o \in BOOLEAN, c \in BOOLEAN :
       /\ (b \/ o) => d
       /\ fs = [dir |-> d, bin |-> b, other |-> o, tmp |-> FALSE,
                conntrack |-> TRUE, cluster |-> c]
  /\ env = NoEnv
  /\ hist = NoHist
  /\ url = <<>>
  /\ wait = NoWait

CleanupSpec == CleanupInit /\ [][CleanupNext]_vars


\* a job or a lone cleanup(): every way either function is entered
AnySpec == (Init \/ CleanupInit) /\ [][Next]_vars

WaitNext ==
  \/ waitForClusterReady_tick
  \/ waitForClusterReady_api
  \/ waitForClusterReady_nodes
  \/ waitForClusterReady_pods
  \/ waitForClusterReady_sleep
  \/ showDiagnostics
  \/ waitForClusterReady_throw
  \/ waitForClusterReady_return
  \/ main_exit

\* waitForClusterReady(timeout) alone: the state in which main() calls it on a
\* Linux x86_64 machine that had conntrack, for every timeout input
WaitInit ==
  /\ pc = "wait"
  /\ inv = 1
  /\ state = saveState(saveState(NoState, main_state), installMinikube_state)
  /\ platform = "linux"
  /\ \E t \in TimeoutInputs : inputs = ResolveInputs("", "", "", "true", t)
  /\ calls = << <<"which", "conntrack">>, <<"uname", "-m">>,
                <<"curl", "-sfL">> \o DownloadUrl("latest", "linux", "amd64")
                  \o <<"-o", TmpBinary>>,
                <<"mkdir", CustomBinDir>>,
                <<"install", "-m", "755", TmpBinary, MinikubePath>>,
                <<"rm", "-f", TmpBinary>>, <<"minikube", "version">>,
                <<"which", "minikube">>, StartArgs("stable", "docker"),
                <<"minikube", "kubectl", "--", "config", "view">> >>
  /\ ccalls = <<>>
  /\ warnings = {}
  /\ result = NoResult
  /\ fs = [dir |-> TRUE, bin |-> TRUE, other |-> FALSE, tmp |-> FALSE,
           conntrack |-> TRUE, cluster |-> TRUE]
  /\ env = [path |-> TRUE, kubeconfig |-> KubeconfigPath,
            output |-> KubeconfigPath]
  /\ hist = [dirCreated |-> TRUE, prereqInstalled |-> FALSE,
             prereqPreexisting |-> TRUE, started |-> TRUE,
             saved |-> <<"isPost", "minikubePath", "customBinDir">>,
             arch |-> "x86_64"]
  /\ url = DownloadUrl("latest", "linux", "amd64")
  /\ wait = NoWait

WaitSpec == WaitInit /\ [][WaitNext]_vars

\* the process keeps running: an exec or a sleep that can complete does
WaitFairSpec == WaitSpec /\ WF_vars(WaitNext)

------------------------------------------------------------------------------
(* Properties *)

Range(s) == {s[i] : i \in 1..Len(s)}
Launches(log, argv) == argv \in Range(log)

\* a teardown command that removes files, directories or packages
IsRemoval(argv) ==
  \/ argv[1] \in {"rm", "rmdir"}
  \/ (argv[1] = "sudo" /\ argv[2] = "rm")
  \/ (argv[1] = "sudo" /\ argv[2] = "apt-get" /\ argv[3] = "purge")

PurgeCommand == DockerCommands[3]

\* the teardown invocation of the job has ended
TeardownEnded == pc = "done" /\ result.cleanup # "none"

\* C1 (stated as claimed): conntrack that pre-existed is never purged; when
\* this run installed it, the saved state says so once main() has ended, and
\* the teardown that follows launches every command of the reversal.
C1_PrerequisiteSymmetry ==
  /\ hist.prereqPreexisting => ~Launches(ccalls, PurgeCommand)
  /\ (hist.prereqInstalled /\ result.main # "none")
       => state["dockerInstalled"] = "true"
  /\ (hist.prereqInstalled /\ TeardownEnded /\ "docker" \notin warnings)
       => \A i \in 1..Len(DockerCommands) : Launches(ccalls, DockerCommands[i])

\* C2 (stated as claimed): after the teardown of a job whose setup succeeded,
\* the install directory is gone or no longer holds the installed binary.
C2_ExactReversal ==
  (TeardownEnded /\ result.main = "ok") => (~fs.dir \/ ~fs.bin)

\* every step of deleteMinikube() the saved state calls for was launched
DeleteStepsLaunched ==
  /\ Launches(ccalls, <<"minikube", "status">>)
  /\ Launches(ccalls, <<"rm", "-rf", "~/.minikube">>)
  /\ Launches(ccalls, <<"sudo", "rm", "-rf", "/etc/cni">>)
  /\ Launches(ccalls, <<"sudo", "rm", "-rf", "/opt/cni">>)
  /\ Launches(ccalls, <<"rm", "-f", state["minikubePath"]>>)
  /\ state["customBinDir"] # "" =>
       \E i \in 1..Len(ccalls) : ccalls[i][1] = "bash"

\* C3 (stated as claimed): a teardown step that fails aborts no later step:
\* when teardown has ended, every step the saved state calls for was launched.
C3_StepsIndependent ==
  (TeardownEnded /\ state["minikubePath"] # "") => DeleteStepsLaunched

\* C4: cleanup() returns normally whatever the saved state holds and however
\* its commands end, and main() returns normally only when every step it ran
\* succeeded: a failed step always leaves main() as a thrown error.
C4_TeardownNeverPropagates ==
  /\ result.cleanup \in {"none", "returned"}
  /\ pc = "done" => result.cleanup = "returned"
  /\ result.main = "ok" =>
       /\ result.error = ""
       /\ state["minikubePath"] = MinikubePath
       /\ hist.started
       /\ env.kubeconfig = KubeconfigPath
  /\ result.error # "" => result.main = "threw"

\* C4 witness: a command of deleteMinikube() could not be launched, and
\* cleanup() still returned
C4_Witness ==
  /\ pc = "done"
  /\ "cleanup" \in warnings
  /\ result.cleanup = "returned"

\* C5: when setup failed before the binary's path was saved, the teardown
\* that follows launches no command that removes anything.
C5_IdempotentLedger ==
  (inv = 2 /\ result.main = "threw" /\ state["minikubePath"] = "")
    => \A i \in 1..Len(ccalls) : ~IsRemoval(ccalls[i])

\* C5 witness: setup failed after creating the install directory and before
\* saving the path, and teardown has run
C5_Witness ==
  /\ TeardownEnded
  /\ result.main = "threw"
  /\ state["minikubePath"] = ""
  /\ hist.dirCreated

MarkerWrites == Len(SelectSeq(hist.saved, LAMBDA k : k = "isPost"))

\* C7: a setup run saves the phase marker exactly once, before it launches
\* anything; the marker is set whenever main() has ended, however it ended,
\* and the invocation after it runs cleanup(), never main().
C7_MarkerFirst ==
  /\ MarkerWrites <= 1
  /\ (calls # <<>> \/ result.main # "none") =>
       (MarkerWrites = 1 /\ state["isPost"] = "true")
  /\ inv = 2 => (IsPost(state) /\ pc \in {"router", "done", "cleanup",
                   "dm_delete", "dm_home", "dm_etc_cni", "dm_opt_cni",
                   "dm_binary", "dm_empty", "dm_rmdir", "docker"})

\* C7 witness: a setup run that failed at its first command, routed to
\* teardown at the next invocation
C7_Witness ==
  /\ inv = 2
  /\ pc = "cleanup"
  /\ result.main = "threw"
  /\ result.error = "prerequisites"

CheckOrder == <<"DriverRunning", "APIReachable", "NodesReady",
                "SystemPodsSettled">>

\* C8: within a tick the checks run in their fixed order, and a check is
\* evaluated only when every check before it passed in that tick.
C8_MonotonicGating ==
  /\ Len(wait.tick) <= Len(CheckOrder)
  /\ \A i \in 1..Len(wait.tick) :
       /\ wait.tick[i].check = CheckOrder[i]
       /\ \A j \in 1..(i - 1) : wait.tick[j].pass

\* C8 witness: a tick where APIReachable failed ends with two checks evaluated
C8_Witness ==
  /\ pc = "wait_sleep"
  /\ Len(wait.tick) = 2
  /\ ~wait.tick[2].pass

\* the clock of the model lets a loop with this timeout reach its timeout
WithinClock(t) ==
  ~t.nan /\ (t.val + 1) * 1000 - 1 + SleepMs <= MaxClockMs

\* C9: the loop reports a timeout only when at least timeout seconds have
\* passed since it began; and a loop that never sees all four checks pass
\* ends, with the timeout error when no command failed to launch.
C9_TimeoutBoundary ==
  /\ [](wait.outcome = "timeout" =>
          (~inputs.timeout.nan /\ wait.elapsedMs >= inputs.timeout.val * 1000))
  /\ [](pc = "diag" => wait.outcome = "timeout")
  /\ [](pc = "wait_done" => wait.outcome = "success")
  /\ []((pc = "wait" /\ WithinClock(inputs.timeout))
          => <>(pc \in {"diag", "wait_done", "wait_throw"}))

\* C9 witness: a timeout reported after sleeps
C9_Witness ==
  /\ pc = "diag"
  /\ wait.outcome = "timeout"
  /\ wait.sleeps >= 1
  /\ inputs.timeout.val > 0

\* C10 (stated as claimed): after a job whose setup started a cluster,
\* teardown has launched `minikube delete`; stated for the teardowns in which
\* every command could be launched, so that no step was cut off by the catch.
C10_ClusterDeleted ==
  (TeardownEnded /\ hist.started /\ "cleanup" \notin warnings)
    => Launches(ccalls, <<"minikube", "delete">>)


\* the `minikube start` commands main() has launched
StartCalls == {c \in Range(calls) : Len(c) >= 2 /\ c[1] = "minikube" /\ c[2] = "start"}

\* C11: `minikube start` is launched with --driver and the resolved driver,
\* and with --kubernetes-version V exactly when the resolved version V is not
\* "stable"; for "stable" it carries no version argument at all.
C11_StartArguments ==
  /\ pc \in {"start_config", "wait"} => StartCalls # {}
  /\ \A c \in StartCalls :
       /\ Len(c) >= 4 /\ c[3] = "--driver" /\ c[4] = inputs.driver
       /\ inputs.kubernetesVersion = "stable" => Len(c) = 4
       /\ inputs.kubernetesVersion # "stable" =>
            /\ Len(c) = 6
            /\ c[5] = "--kubernetes-version"
            /\ c[6] = inputs.kubernetesVersion

\* C11 witness: a start with an explicit version and a driver other than the
\* default has been launched
C11_Witness ==
  /\ pc = "start_config"
  /\ inputs.kubernetesVersion = "v1.28.0"
  /\ inputs.driver = "none"
  /\ <<"minikube", "start", "--driver", "none", "--kubernetes-version",
       "v1.28.0">> \in StartCalls

\* C11 witness (the default): "stable" has been started with no version
C11_WitnessStable ==
  /\ pc = "start_config"
  /\ <<"minikube", "start", "--driver", "docker">> \in StartCalls


SupportedArchs == {"x86_64", "aarch64", "arm64", "armv7l"}

\* the commands of main() that come after the architecture switch
AfterArchSwitch(c) ==
  \/ c[1] \in {"curl", "mkdir", "install"}
  \/ (c[1] = "minikube" /\ c[2] = "start")

\* C12: when `uname -m` reports an architecture outside the four supported
\* ones, main() fails in the install step at once: it launches no download,
\* creates no install directory, saves no path and starts no cluster.
C12_UnsupportedArch ==
  (hist.arch # "" /\ hist.arch \notin SupportedArchs) =>
    /\ result.main = "threw"
    /\ result.error = "install"
    /\ \A i \in 1..Len(calls) : ~AfterArchSwitch(calls[i])
    /\ pc = "main_end" => calls[Len(calls)] = <<"uname", "-m">>
    /\ ~hist.dirCreated
    /\ ~fs.bin /\ ~fs.tmp /\ ~fs.cluster
    /\ state["minikubePath"] = "" /\ state["customBinDir"] = ""
    /\ ~hist.started

\* C12 witness: main() has failed on riscv64
C12_Witness ==
  /\ pc = "main_end"
  /\ hist.arch = "riscv64"
  /\ result.main = "threw"


\* the four checks of a tick, in the order the loop makes them
FourChecks ==
  <<"DriverRunning", "APIReachable", "NodesReady", "SystemPodsSettled">>

\* every check of the current tick has been made and has passed
AllFourPass ==
  /\ Len(wait.tick) = Len(FourChecks)
  /\ \A i \in 1..Len(FourChecks) :
       wait.tick[i].check = FourChecks[i] /\ wait.tick[i].pass

\* C13: the loop leaves with success on the first tick whose four checks all
\* pass; when that is tick k it has made exactly k ticks and k-1 sleeps of at
\* least 5 seconds each, one after every earlier tick, and it has not
\* invoked the diagnostics.
C13_TicksAndSleeps ==
  /\ pc \in {"wait_api", "wait_nodes", "wait_pods", "wait_sleep", "wait_done"}
       => (wait.ticks >= 1 /\ wait.sleeps = wait.ticks - 1)
  /\ pc = "wait" => wait.sleeps = wait.ticks
  /\ wait.elapsedMs >= wait.sleeps * SleepMs
  /\ pc = "wait_done" <=> wait.outcome = "success"
  /\ pc = "wait_done" => (AllFourPass /\ wait.diag = <<>>
                           /\ "diagnostics" \notin warnings)
  /\ pc \in {"wait_api", "wait_nodes", "wait_pods", "wait_sleep"}
       => ~AllFourPass

\* C13 witness: success on tick 3, after two sleeps
C13_Witness ==
  /\ pc = "wait_done"
  /\ wait.ticks = 3
  /\ wait.sleeps = 2
  /\ wait.outcome = "success"


\* C14: after a teardown that ran to its end, an install directory this job's
\* setup created does not remain, unless it holds files that setup did not
\* place there.
C14_CreatedDirUndone ==
  (TeardownEnded /\ hist.dirCreated /\ "cleanup" \notin warnings)
    => (~fs.dir \/ fs.other)


PrereqPcs == {"prereq", "prereq_update", "prereq_install"}
InstallPcs == {"install", "install_curl", "install_mkdir", "install_install",
               "install_rmtmp", "install_version", "install_which"}
StartPcs == {"start", "start_config"}
WaitPcs == {"wait", "wait_api", "wait_nodes", "wait_pods", "wait_sleep",
            "diag", "wait_throw", "wait_done"}

\* the step of main() a launched command belongs to: 1 prerequisites,
\* 2 install, 3 start
StepOf(c) ==
  IF c \in {<<"which", "conntrack">>, <<"sudo", "apt-get", "update", "-qq">>,
            <<"sudo", "apt-get", "install", "-y", "-qq", "conntrack">>}
  THEN 1
  ELSE IF c[1] = "minikube" /\ c[2] \in {"start", "kubectl"} THEN 3 ELSE 2

PrereqSucceeded ==
  platform = "linux" =>
    (fs.conntrack /\ (hist.prereqPreexisting \/ hist.prereqInstalled))

InstallSucceeded ==
  /\ fs.bin /\ env.path
  /\ state["minikubePath"] = MinikubePath
  /\ <<"which", "minikube">> \in Range(calls)

StartSucceeded ==
  /\ hist.started
  /\ env.kubeconfig = KubeconfigPath

\* C15: main() launches the commands of the prerequisite, install and start
\* steps in that order and none of them twice; it is inside a step only while
\* no step has failed and every earlier step has succeeded; and it is inside
\* the readiness wait only when all three steps succeeded and wait was asked.
C15_OrderedFailFast ==
  /\ \A i, j \in 1..Len(calls) :
       i < j => (StepOf(calls[i]) <= StepOf(calls[j]) /\ calls[i] # calls[j])
  /\ pc \in PrereqPcs \cup InstallPcs \cup StartPcs \cup WaitPcs
       => result.main = "none"
  /\ pc \in InstallPcs \cup StartPcs \cup WaitPcs => PrereqSucceeded
  /\ pc \in StartPcs \cup WaitPcs => InstallSucceeded
  /\ pc \in WaitPcs => (StartSucceeded /\ inputs.waitForReady)
  /\ (pc = "main_end" /\ result.error = "prerequisites")
       => \A i \in 1..Len(calls) : StepOf(calls[i]) = 1
  /\ (pc = "main_end" /\ result.error = "install")
       => (~hist.started /\ \A i \in 1..Len(calls) : StepOf(calls[i]) <= 2)
  /\ (pc = "main_end" /\ result.main = "ok")
       => (PrereqSucceeded /\ InstallSucceeded /\ StartSucceeded)

\* C15 witness: the install step failed after the prerequisite was installed
C15_Witness ==
  /\ pc = "main_end"
  /\ result.main = "threw"
  /\ result.error = "install"
  /\ hist.prereqInstalled
  /\ <<"curl", "-sfL">> \o url \o <<"-o", TmpBinary>> \in Range(calls)

\* C15 witness: all three steps succeeded and the readiness wait is running
C15_WitnessWait ==
  /\ pc = "wait_pods"
  /\ platform = "linux"
  /\ hist.prereqInstalled
  /\ Len(calls) >= 10


\* C16 (stated as claimed): when the loop is about to raise the timeout error,
\* the dump has attempted every one of its five queries, whatever happened to
\* the earlier ones.
C16_DumpIndependent ==
  (pc = "wait_throw" /\ wait.outcome = "timeout") => wait.diag = DiagCommands


\* `minikube start` succeeded and the `config view` query that follows it in
\* startMinikube() has been made and failed
ConfigViewFailed == hist.started /\ result.error = "start"

\* C17 (stated as claimed): once `minikube start` has succeeded the path is
\* published as the output and as KUBECONFIG, and it is never published when
\* start failed.
C17_PublishedOnStart ==
  /\ (hist.started /\ pc # "start_config")
       => (env.output = KubeconfigPath /\ env.kubeconfig = KubeconfigPath)
  /\ ~hist.started => (env.output = "" /\ env.kubeconfig = "")

\* C17 (amended): the path is published, the same fixed path as the output
\* and as KUBECONFIG, exactly when `minikube start` and the `config view`
\* query after it both succeeded; it is published neither when start failed
\* nor when the query failed.
C17_PublishedOnStartAndView ==
  /\ env.output = env.kubeconfig
  /\ env.kubeconfig \in {"", KubeconfigPath}
  /\ env.kubeconfig = KubeconfigPath
       <=> (hist.started /\ pc # "start_config" /\ ~ConfigViewFailed)

\* C17 witness: start and the query succeeded and the path is published
C17_Witness ==
  /\ hist.started
  /\ pc = "main_end"
  /\ result.main = "ok"
  /\ env.output = KubeconfigPath
  /\ env.kubeconfig = KubeconfigPath

\* C17 witness: start succeeded, the query failed, nothing is published
C17_WitnessViewFailed ==
  /\ pc = "main_end"
  /\ ConfigViewFailed
  /\ env.kubeconfig = ""


\* C18 (stated as claimed): when the teardown has passed the removal of the
\* binary and the recorded install directory exists and is empty, the
\* directory is the target of a remove call.
C18_EmptyDirRemoved ==
  (/\ TeardownEnded
   /\ state["customBinDir"] # ""
   /\ Launches(ccalls, <<"rm", "-f", state["minikubePath"]>>)
   /\ fs.dir /\ ~fs.bin /\ ~fs.other)
    => Launches(ccalls, <<"rmdir", state["customBinDir"]>>)


\* C19: the saved state is write-once per key during setup and read-only
\* during teardown: no step saves a key that was saved before, a key that
\* holds a value keeps it (so the phase marker stays set), and no step of the
\* second invocation changes the saved state.
C19_WriteOnceReadOnly ==
  [][/\ \A i, j \in 1..Len(hist'.saved) :
          i # j => hist'.saved[i] # hist'.saved[j]
     /\ \A k \in Keys : state[k] # "" => state'[k] = state[k]
     /\ (inv = 2 \/ pc \notin {"main", "install_install"}) => state' = state
     /\ ccalls' # ccalls => state' = state]_vars

\* C19 witness: the teardown has ended with the three keys setup saved
C19_Witness ==
  /\ TeardownEnded
  /\ ccalls # <<>>
  /\ hist.saved = <<"isPost", "minikubePath", "customBinDir">>
  /\ state["isPost"] = "true"
  /\ state["minikubePath"] = MinikubePath


\* C20 (stated as claimed): the loop reaches success only on a tick whose
\* node query reported at least one node.
C20_NoNodesNotReady ==
  pc = "wait_done" =>
    (wait.tick[3].check = "NodesReady" /\ wait.tick[3].seen >= 1)


\* C21 (stated as claimed): the timeout bounds the loop, so whenever the loop
\* is about to start a further tick there is an elapsed time at which the
\* timeout test of that tick fires.
C21_TimeoutBoundsLoop ==
  (pc = "wait" /\ wait.ticks >= 2) =>
    \E e \in 0..(inputs.timeout.val + 1) : TimedOut(e, inputs.timeout)


\* the directory that contains a path, for the paths of the model
DirOf(p) ==
  CASE p = MinikubePath -> CustomBinDir
    [] p = SystemMinikube -> "/usr/local/bin"
    [] p = TmpBinary -> "/tmp"
    [] OTHER -> ""

\* both paths are saved
PathsSaved == state["minikubePath"] # "" /\ state["customBinDir"] # ""

\* C22: the saved binary path and the saved directory are present together
\* or absent together; the saved directory is the one that contains the saved
\* binary path; and they are saved only by the step in which this run's
\* `install` command succeeded, so while setup runs the saved path holds the
\* installed binary.
C22_PathsSavedTogether ==
  /\ [](state["minikubePath"] = "" <=> state["customBinDir"] = "")
  /\ [](PathsSaved => state["customBinDir"] = DirOf(state["minikubePath"]))
  /\ []((PathsSaved /\ inv = 1) => (fs.bin /\ fs.dir))
  /\ []((PathsSaved /\ pc \in InstallPcs \cup StartPcs)
          => <<"install", "-m", "755", TmpBinary, state["minikubePath"]>>
               \in Range(calls))
  /\ [][(state'["minikubePath"] # state["minikubePath"]
          \/ state'["customBinDir"] # state["customBinDir"])
        => (/\ pc = "install_install"
            /\ pc' = "install_rmtmp"
            /\ ~fs.bin /\ fs'.bin
            /\ result'.main = "none")]_vars

\* C22 witness: the install command has just succeeded and both paths are saved
C22_Witness ==
  /\ pc = "install_rmtmp"
  /\ PathsSaved
  /\ fs.bin
  /\ hist.saved = <<"isPost", "minikubePath", "customBinDir">>

====
